---- MODULE Spec2Model ----
(***************************************************************************)
(* NetViz: the Graph store (graph.js) and the failure-aware Network        *)
(* simulation (network.js): construction of the router mesh, the timer     *)
(* tick, the three buttons, Dijkstra's findShortestPath and the snapshot   *)
(* built by visualizeNetwork.                                              *)
(*                                                                         *)
(* Probabilities are held in percent (0.1 is 10); a Math.random() draw is  *)
(* a value of Random, also in percent.  A JavaScript object is a function  *)
(* plus, where the code iterates it, the sequence of its keys in insertion *)
(* order.  null (of findShortestPath's result) is the empty sequence.      *)
(***************************************************************************)
EXTENDS Integers, Sequences, FiniteSets, TLC

VARIABLES
    graph,                  \* Graph.graph: vertex -> adjacency list
    graphKeys,              \* the keys of Graph.graph in insertion order
    nodeFailures,           \* Network.nodeFailures: router -> down?
    linkFailures,           \* Network.linkFailures: "from-to" -> down?
    isPaused,               \* Network.isPaused
    nodeFailureProbability, \* Network.nodeFailureProbability (percent)
    linkFailureProbability, \* Network.linkFailureProbability (percent)
    vis,                    \* the data handed to the last new vis.Network
    pc,                     \* position of the script
    i,                      \* index of the forEach over the edges array
    call                    \* the last method or handler that ran

vars == <<graph, graphKeys, nodeFailures, linkFailures, isPaused,
          nodeFailureProbability, linkFailureProbability, vis, pc, i, call>>

-----------------------------------------------------------------------------
(* Bounds and inputs *)

\* largest edge cost offered to the generic constructions
MaxCost == 3
\* largest number of Graph.addEdge calls in a run of the Graph script
MaxAddEdge == 2
\* longest edges array offered to the generic construction
MaxEdges == 3

Costs == 1..MaxCost

\* the routers array of initializeRouters, cut down to three routers
routers == <<"a", "b", "c">>
\* the edges array of createNetworkEdges, cut down to the triangle of test()
edges == << <<"a", "b", 3>>, <<"a", "c", 2>>, <<"b", "c", 4>> >>
\* the two ends handed to findShortestPath by the tick and the snapshot
source == "a"
sink == "c"

\* identifiers a caller may name: the routers and one that is no vertex
Ids == {"a", "b", "c", "d"}

\* Math.random() lies in [0, 1)
Random == {0, 99}
\* new Network(0.1, 0.0), and the defaults of new Network()
NodeProbabilityArg == 10
LinkProbabilityArg == 0
NodeProbabilityDefault == 20
LinkProbabilityDefault == 10
\* parseFloat's NaN
NaN == -1000
\* what parseFloat can deliver from the two input fields
Inputs == {NaN, -10, 0, 50, 100, 150}

\* JavaScript's Infinity and null
Infinity == -1
null == "null"
NoPath == <<>>

-----------------------------------------------------------------------------
(* JavaScript helpers *)

\* x < y on numbers that may be Infinity
Lt(x, y) == x # Infinity /\ (y = Infinity \/ x < y)

\* obj[key] read as a condition: a missing key is undefined, which is falsy
Flag(obj, key) == key \in DOMAIN obj /\ obj[key]

\* obj[key] = value
Put(obj, key, value) ==
    [k \in (DOMAIN obj) \cup {key} |-> IF k = key THEN value ELSE obj[k]]

\* `${from}-${to}`
LinkKey(from, to) == from \o "-" \o to

\* array.some(edge => edge.vertex === vertex)
SomeVertex(list, vertex) == \E k \in 1..Len(list) : list[k].vertex = vertex

Range(list) == {list[k] : k \in 1..Len(list)}

-----------------------------------------------------------------------------
(* graph.js: class Graph, as functions of (graph, graphKeys) *)

hasOwnProperty(g, vertex) == vertex \in DOMAIN g

Entry(vertex, cost) == [vertex |-> vertex, cost |-> cost]

addVertex(g, gk, vertex) ==
    IF ~hasOwnProperty(g, vertex)
    THEN [graph |-> Put(g, vertex, <<>>), graphKeys |-> Append(gk, vertex)]
    ELSE [graph |-> g, graphKeys |-> gk]

\* a directed insertion: line 39 left out
addEdge_Directed(g, src, des, cost) ==
    IF hasOwnProperty(g, src) /\ hasOwnProperty(g, des)
    THEN [g EXCEPT ![src] = Append(@, Entry(des, cost))]
    ELSE g

addEdge(g, src, des, cost) ==
    IF hasOwnProperty(g, src) /\ hasOwnProperty(g, des)
    THEN LET g1 == [g EXCEPT ![src] = Append(@, Entry(des, cost))]
         IN  [g1 EXCEPT ![des] = Append(@, Entry(src, cost))]
    ELSE g

\* a removeVertex that deletes the key and leaves the other lists as they are
removeVertex_KeyOnly(g, gk, vertex) ==
    IF hasOwnProperty(g, vertex)
    THEN [graph |-> [n \in (DOMAIN g) \ {vertex} |-> g[n]],
          graphKeys |-> SelectSeq(gk, LAMBDA n : n # vertex)]
    ELSE [graph |-> g, graphKeys |-> gk]

removeVertex(g, gk, vertex) ==
    IF hasOwnProperty(g, vertex)
    THEN LET keep(edge) == edge.vertex # vertex
         IN  [graph |-> [n \in (DOMAIN g) \ {vertex} |-> SelectSeq(g[n], keep)],
              graphKeys |-> SelectSeq(gk, LAMBDA n : n # vertex)]
    ELSE [graph |-> g, graphKeys |-> gk]

\* a removeEdge that filters the list of src alone
removeEdge_OneSide(g, src, des) ==
    IF hasOwnProperty(g, src) /\ hasOwnProperty(g, des)
    THEN [g EXCEPT ![src] = SelectSeq(@, LAMBDA edge : edge.vertex # des)]
    ELSE g

removeEdge(g, src, des) ==
    IF hasOwnProperty(g, src) /\ hasOwnProperty(g, des)
    THEN LET g1 == [g EXCEPT ![src] = SelectSeq(@, LAMBDA edge : edge.vertex # des)]
         IN  [g1 EXCEPT ![des] = SelectSeq(@, LAMBDA edge : edge.vertex # src)]
    ELSE g

getNeighbors(g, vertex) == IF hasOwnProperty(g, vertex) THEN g[vertex] ELSE <<>>

-----------------------------------------------------------------------------
(* network.js: findShortestPath *)

\* lines 204-210: every vertex at Infinity with no predecessor, start at 0
\* (distances[start] = 0 creates the key when start is no vertex)
InitDistances(g, start) ==
    [n \in (DOMAIN g) \cup {start} |-> IF n = start THEN 0 ELSE Infinity]

InitPrevious(g) == [n \in DOMAIN g |-> null]

\* a selection that lets a later node of equal distance replace the earlier one
RECURSIVE MinNode_Last(_, _, _)
MinNode_Last(queue, distances, minNode) ==
    IF queue = <<>> THEN minNode
    ELSE LET node == Head(queue)
         IN  MinNode_Last(Tail(queue), distances,
                          IF minNode = null \/ ~Lt(distances[minNode], distances[node])
                          THEN node ELSE minNode)

\* lines 213-218: the first node of the queue, in its insertion order, that no
\* other node undercuts
RECURSIVE MinNode(_, _, _)
MinNode(queue, distances, minNode) ==
    IF queue = <<>> THEN minNode
    ELSE LET node == Head(queue)
         IN  MinNode(Tail(queue), distances,
                     IF minNode = null \/ Lt(distances[node], distances[minNode])
                     THEN node ELSE minNode)

\* line 230 without its first test: only links are skipped
Skipped_LinkOnly(nf, lf, minNode, neighbor) ==
    Flag(lf, LinkKey(minNode, neighbor))

\* line 230 without its second test: only routers are skipped
Skipped_NodeOnly(nf, lf, minNode, neighbor) == Flag(nf, neighbor)

\* line 230: the neighbour is down, or the key built in the direction of travel
\* carries a down flag
Skipped(nf, lf, minNode, neighbor) ==
    Flag(nf, neighbor) \/ Flag(lf, LinkKey(minNode, neighbor))

\* line 236 as a first-come test: only a neighbour not reached yet is updated
Improves_Unreached(newDist, distances, neighbor) ==
    neighbor \in DOMAIN distances /\ distances[neighbor] = Infinity

\* line 236 without the comparison: every neighbour that is not skipped is
\* updated
Improves_Always(newDist, distances, neighbor) == neighbor \in DOMAIN distances

\* line 236: newDist < distances[neighbor]; against undefined it is false
Improves(newDist, distances, neighbor) ==
    neighbor \in DOMAIN distances /\ Lt(newDist, distances[neighbor])

\* lines 228-241: relax the edges of minNode in the order of its adjacency list
RECURSIVE Relax(_, _, _, _, _, _)
Relax(adj, minNode, nf, lf, distances, previous) ==
    IF adj = <<>> THEN [distances |-> distances, previous |-> previous]
    ELSE LET edge == Head(adj)
             neighbor == edge.vertex
             newDist == distances[minNode] + edge.cost
         IN  IF ~Skipped(nf, lf, minNode, neighbor)
                /\ Improves(newDist, distances, neighbor)
             THEN Relax(Tail(adj), minNode, nf, lf,
                        Put(distances, neighbor, newDist),
                        Put(previous, neighbor, minNode))
             ELSE Relax(Tail(adj), minNode, nf, lf, distances, previous)

\* lines 212-242: the selection loop
RECURSIVE Dijkstra(_, _, _, _, _, _)
Dijkstra(g, nf, lf, queue, distances, previous) ==
    IF queue = <<>> THEN [distances |-> distances, previous |-> previous]
    ELSE LET minNode == MinNode(queue, distances, null)
         IN  IF distances[minNode] = Infinity
             THEN [distances |-> distances, previous |-> previous]
             ELSE LET r == Relax(g[minNode], minNode, nf, lf, distances, previous)
                  IN  Dijkstra(g, nf, lf, SelectSeq(queue, LAMBDA n : n # minNode),
                               r.distances, r.previous)

\* a walk that appends each node where the code puts it in front
RECURSIVE WalkBack_Push(_, _, _)
WalkBack_Push(previous, currentNode, path) ==
    IF currentNode = null THEN path
    ELSE WalkBack_Push(previous,
                       IF currentNode \in DOMAIN previous
                       THEN previous[currentNode] ELSE null,
                       path \o <<currentNode>>)

\* lines 244-249: walk the predecessors back from end; null and undefined stop it
RECURSIVE WalkBack(_, _, _)
WalkBack(previous, currentNode, path) ==
    IF currentNode = null THEN path
    ELSE WalkBack(previous,
                  IF currentNode \in DOMAIN previous
                  THEN previous[currentNode] ELSE null,
                  <<currentNode>> \o path)

\* the distances and predecessors the loop ends with
Search(g, gk, nf, lf, start) ==
    Dijkstra(g, nf, lf, gk, InitDistances(g, start), InitPrevious(g))

\* lines 198-257
findShortestPath(g, gk, nf, lf, start, end) ==
    LET path == WalkBack(Search(g, gk, nf, lf, start).previous, end, <<>>)
    IN  IF Len(path) > 1 THEN path ELSE NoPath

-----------------------------------------------------------------------------
(* network.js: visualizeNetwork *)

\* lines 268-284: one node per vertex, red when down, LimeGreen on the path
DrawNodes(gk, nf, pathSet) ==
    [k \in 1..Len(gk) |->
        [id |-> gk[k],
         color |-> IF Flag(nf, gk[k]) THEN "red"
                   ELSE IF gk[k] \in pathSet THEN "LimeGreen" ELSE "green"]]

\* lines 287-288: the (vertex, edge) pairs in the order the two loops meet them
RECURSIVE AdjacencyPairs(_, _)
AdjacencyPairs(g, gk) ==
    IF gk = <<>> THEN <<>>
    ELSE LET vertex == Head(gk)
         IN  [k \in 1..Len(g[vertex]) |-> [vertex |-> vertex, edge |-> g[vertex][k]]]
             \o AdjacencyPairs(g, Tail(gk))

\* line 292: the key built from this side is not down and the other side has
\* not been drawn
Drawable(lf, seenEdges, linkKey, reverseKey) ==
    ~Flag(lf, linkKey) /\ reverseKey \notin seenEdges

\* line 294
IsPathEdge(pathSet, from, to) == from \in pathSet /\ to \in pathSet

\* lines 286-305
RECURSIVE DrawEdges(_, _, _, _, _)
DrawEdges(pairs, lf, pathSet, seenEdges, drawn) ==
    IF pairs = <<>> THEN drawn
    ELSE LET vertex == Head(pairs).vertex
             edge == Head(pairs).edge
             linkKey == LinkKey(vertex, edge.vertex)
             reverseKey == LinkKey(edge.vertex, vertex)
         IN  IF Drawable(lf, seenEdges, linkKey, reverseKey)
             THEN DrawEdges(Tail(pairs), lf, pathSet, seenEdges \cup {linkKey},
                            Append(drawn,
                                   [from |-> vertex, to |-> edge.vertex,
                                    cost |-> edge.cost,
                                    color |-> IF IsPathEdge(pathSet, vertex, edge.vertex)
                                              THEN "blue" ELSE "undefined"]))
             ELSE DrawEdges(Tail(pairs), lf, pathSet, seenEdges, drawn)

\* lines 259-316: the data of the new vis.Network
visualizeNetwork(g, gk, nf, lf) ==
    LET path == findShortestPath(g, gk, nf, lf, source, sink)
        pathSet == Range(path)
    IN  [path |-> path,
         nodes |-> DrawNodes(gk, nf, pathSet),
         edges |-> DrawEdges(AdjacencyPairs(g, gk), lf, pathSet, {}, <<>>)]

NoVis == [path |-> NoPath, nodes |-> <<>>, edges |-> <<>>]

-----------------------------------------------------------------------------
(* network.js: the failure flags *)

\* a comparison that lets the draw 0 pass under probability 0
Bernoulli_AtMost(draw, probability) == draw <= probability

\* Math.random() < probability
Bernoulli(draw, probability) == draw < probability

\* a check that sets the flag where the code negates it
checkFailures_Set(failures, probability, draws) ==
    [k \in DOMAIN failures |->
        IF Bernoulli(draws[k], probability) THEN TRUE ELSE failures[k]]

\* lines 180-187 and 189-196: a flag is negated where its draw is under the
\* probability and kept elsewhere
checkFailures(failures, probability, draws) ==
    [k \in DOMAIN failures |->
        IF Bernoulli(draws[k], probability) THEN ~failures[k] ELSE failures[k]]

\* a reset that clears the flags of nothing
resetFailures_Keep(failures) == failures

\* a reset that replaces the flag object by an empty one
resetFailures_Empties(failures) == [k \in {} |-> FALSE]

\* lines 56-62
resetFailures(failures) == [k \in DOMAIN failures |-> FALSE]

\* a test of the node input alone
Accepted_NodeOnly(nodeProbInput, linkProbInput) ==
    nodeProbInput # NaN /\ nodeProbInput >= 0 /\ nodeProbInput <= 100

\* line 75: the comparisons are false on NaN
Accepted(nodeProbInput, linkProbInput) ==
    /\ nodeProbInput # NaN /\ nodeProbInput >= 0 /\ nodeProbInput <= 100
    /\ linkProbInput # NaN /\ linkProbInput >= 0 /\ linkProbInput <= 100

\* lines 141-142; reading .some of a missing vertex's list throws a TypeError
Throws(g, from, to) ==
    \/ ~hasOwnProperty(g, from)
    \/ ~SomeVertex(g[from], to) /\ ~hasOwnProperty(g, to)

edgeExists(g, from, to) == SomeVertex(g[from], to) \/ SomeVertex(g[to], from)

-----------------------------------------------------------------------------
(* The steps of the program *)

\* the last handler run: its name, arguments and result, and whether it drew
\* the network (visualizeNetwork, lines 314-315: new vis.Network)
Call(op, args, ret) == [op |-> op, args |-> args, ret |-> ret, drew |-> FALSE]

CallDrawn(op, args, ret) == [Call(op, args, ret) EXCEPT !.drew = TRUE]

Constructing ==
    /\ graph = <<>>
    /\ graphKeys = <<>>
    /\ nodeFailures = <<>>
    /\ linkFailures = <<>>
    /\ isPaused = FALSE
    /\ vis = NoVis
    /\ i = 0
    /\ call = Call("constructor", <<>>, NoPath)

\* network.js lines 100-104: the body of routers.forEach; after the last router
\* initializeRouters goes on to createNetworkEdges
InitializeRouter(router) ==
    /\ pc = "initializeRouters"
    /\ \E draw \in Random :
        nodeFailures' = Put(nodeFailures, router,
                            Bernoulli(draw, nodeFailureProbability))
    /\ graph' = addVertex(graph, graphKeys, router).graph
    /\ graphKeys' = addVertex(graph, graphKeys, router).graphKeys
    /\ i' = IF i + 1 = Len(routers) THEN 0 ELSE i + 1
    /\ pc' = IF i + 1 = Len(routers) THEN "createNetworkEdges" ELSE pc
    /\ call' = Call("initializeRouters", <<router>>, NoPath)
    /\ UNCHANGED <<linkFailures, isPaused, nodeFailureProbability,
                   linkFailureProbability, vis>>

InitializeRouters == i < Len(routers) /\ InitializeRouter(routers[i + 1])

\* network.js lines 140-150; a TypeError ends the constructor and the script
addEdgeWithFailure(from, to, cost) ==
    /\ pc = "createNetworkEdges"
    /\ IF Throws(graph, from, to)
       THEN /\ pc' = "aborted"
            /\ UNCHANGED <<graph, linkFailures, i>>
       ELSE /\ pc' = pc
            /\ i' = i + 1
            /\ IF ~edgeExists(graph, from, to)
               THEN /\ graph' = addEdge(graph, from, to, cost)
                    /\ \E draw \in Random :
                        linkFailures' = Put(linkFailures, LinkKey(from, to),
                                            Bernoulli(draw, linkFailureProbability))
               ELSE UNCHANGED <<graph, linkFailures>>
    /\ call' = Call("addEdgeWithFailure", <<from, to, cost>>, NoPath)
    /\ UNCHANGED <<graphKeys, nodeFailures, isPaused, nodeFailureProbability,
                   linkFailureProbability, vis>>

\* network.js line 137: edges.forEach
CreateNetworkEdges ==
    /\ i < Len(edges)
    /\ addEdgeWithFailure(edges[i + 1][1], edges[i + 1][2], edges[i + 1][3])

\* network.js lines 42-46: the rest of the constructor, once the forEach is over
Constructed ==
    /\ pc = "createNetworkEdges"
    /\ vis' = visualizeNetwork(graph, graphKeys, nodeFailures, linkFailures)
    /\ pc' = "running"
    /\ call' = CallDrawn("visualizeNetwork", <<>>, vis'.path)
    /\ UNCHANGED <<graph, graphKeys, nodeFailures, linkFailures, isPaused,
                   nodeFailureProbability, linkFailureProbability, i>>

StartSimulation == i = Len(edges) /\ Constructed

\* a callback that resamples whether or not the simulation is paused
Tick_IgnoresPause ==
    /\ pc = "running"
    /\ \E draws \in [DOMAIN nodeFailures -> Random] :
        nodeFailures' = checkFailures(nodeFailures, nodeFailureProbability, draws)
    /\ \E draws \in [DOMAIN linkFailures -> Random] :
        linkFailures' = checkFailures(linkFailures, linkFailureProbability, draws)
    /\ vis' = visualizeNetwork(graph, graphKeys, nodeFailures', linkFailures')
    /\ call' = CallDrawn("tick", <<>>,
                         findShortestPath(graph, graphKeys, nodeFailures',
                                          linkFailures', source, sink))
    /\ UNCHANGED <<graph, graphKeys, isPaused, nodeFailureProbability,
                   linkFailureProbability, pc, i>>

\* a callback that draws the network before it resamples the flags
Tick_DrawsFirst ==
    /\ pc = "running"
    /\ IF ~isPaused
       THEN /\ vis' = visualizeNetwork(graph, graphKeys, nodeFailures, linkFailures)
            /\ \E draws \in [DOMAIN nodeFailures -> Random] :
                nodeFailures' = checkFailures(nodeFailures,
                                              nodeFailureProbability, draws)
            /\ \E draws \in [DOMAIN linkFailures -> Random] :
                linkFailures' = checkFailures(linkFailures,
                                              linkFailureProbability, draws)
            /\ call' = CallDrawn("tick", <<>>, vis'.path)
       ELSE /\ UNCHANGED <<nodeFailures, linkFailures, vis>>
            /\ call' = Call("tick", <<>>, NoPath)
    /\ UNCHANGED <<graph, graphKeys, isPaused, nodeFailureProbability,
                   linkFailureProbability, pc, i>>

\* network.js lines 153-168: the interval callback
Tick ==
    /\ pc = "running"
    /\ IF ~isPaused
       THEN /\ \E draws \in [DOMAIN nodeFailures -> Random] :
                nodeFailures' = checkFailures(nodeFailures,
                                              nodeFailureProbability, draws)
            /\ \E draws \in [DOMAIN linkFailures -> Random] :
                linkFailures' = checkFailures(linkFailures,
                                              linkFailureProbability, draws)
            /\ vis' = visualizeNetwork(graph, graphKeys, nodeFailures', linkFailures')
            /\ call' = CallDrawn("tick", <<>>,
                                 findShortestPath(graph, graphKeys, nodeFailures',
                                                  linkFailures', source, sink))
       ELSE /\ UNCHANGED <<nodeFailures, linkFailures, vis>>
            /\ call' = Call("tick", <<>>, NoPath)
    /\ UNCHANGED <<graph, graphKeys, isPaused, nodeFailureProbability,
                   linkFailureProbability, pc, i>>

\* a click that pauses and never resumes
ToggleButton_PauseOnly ==
    /\ pc = "running"
    /\ isPaused' = TRUE
    /\ call' = Call("toggleButton", <<>>, NoPath)
    /\ UNCHANGED <<graph, graphKeys, nodeFailures, linkFailures,
                   nodeFailureProbability, linkFailureProbability, vis, pc, i>>

\* network.js lines 173-177: the click handler of toggleButton
ToggleButton ==
    /\ pc = "running"
    /\ isPaused' = ~isPaused
    /\ call' = Call("toggleButton", <<>>, NoPath)
    /\ UNCHANGED <<graph, graphKeys, nodeFailures, linkFailures,
                   nodeFailureProbability, linkFailureProbability, vis, pc, i>>

\* network.js lines 71-83: the click handler of setProbabilitiesButton
SetProbabilities(nodeProbInput, linkProbInput) ==
    /\ pc = "running"
    /\ IF Accepted(nodeProbInput, linkProbInput)
       THEN /\ nodeFailureProbability' = nodeProbInput
            /\ linkFailureProbability' = linkProbInput
       ELSE UNCHANGED <<nodeFailureProbability, linkFailureProbability>>
    /\ call' = Call("setProbabilities", <<>>, NoPath)
    /\ UNCHANGED <<graph, graphKeys, nodeFailures, linkFailures, isPaused,
                   vis, pc, i>>

\* a reset that clears the flags and leaves the drawing as it was
ResetNetwork_NoRedraw ==
    /\ pc = "running"
    /\ nodeFailures' = resetFailures(nodeFailures)
    /\ linkFailures' = resetFailures(linkFailures)
    /\ call' = Call("resetNetwork", <<>>, vis.path)
    /\ UNCHANGED <<graph, graphKeys, isPaused, nodeFailureProbability,
                   linkFailureProbability, vis, pc, i>>

\* a reset that also restarts a paused simulation
ResetNetwork_Resumes ==
    /\ pc = "running"
    /\ nodeFailures' = resetFailures(nodeFailures)
    /\ linkFailures' = resetFailures(linkFailures)
    /\ vis' = visualizeNetwork(graph, graphKeys, nodeFailures', linkFailures')
    /\ isPaused' = FALSE
    /\ call' = CallDrawn("resetNetwork", <<>>, vis'.path)
    /\ UNCHANGED <<graph, graphKeys, nodeFailureProbability,
                   linkFailureProbability, pc, i>>

\* network.js lines 54-67
ResetNetwork ==
    /\ pc = "running"
    /\ nodeFailures' = resetFailures(nodeFailures)
    /\ linkFailures' = resetFailures(linkFailures)
    /\ vis' = visualizeNetwork(graph, graphKeys, nodeFailures', linkFailures')
    /\ call' = CallDrawn("resetNetwork", <<>>, vis'.path)
    /\ UNCHANGED <<graph, graphKeys, isPaused, nodeFailureProbability,
                   linkFailureProbability, pc, i>>

\* new Network(0.1, 0.0) on the cut-down mesh, then the timer and the buttons
Init ==
    /\ Constructing
    /\ pc = "initializeRouters"
    /\ nodeFailureProbability = NodeProbabilityArg
    /\ linkFailureProbability = LinkProbabilityArg

Next ==
    \/ InitializeRouters
    \/ CreateNetworkEdges
    \/ StartSimulation
    \/ Tick
    \/ ToggleButton
    \/ \E nodeProbInput \in Inputs, linkProbInput \in Inputs :
        SetProbabilities(nodeProbInput, linkProbInput)
    \/ ResetNetwork

Spec == Init /\ [][Next]_vars

-----------------------------------------------------------------------------
(* new Network() on any mesh over the routers, then calls of findShortestPath *)

\* A generic edges array has the shape of the array of createNetworkEdges:
\* every edge runs from the lower router to the higher one, and the edges are
\* listed in the order of their first end, then of their second end.
Rank == [id \in Ids |-> CASE id = "a" -> 1 [] id = "b" -> 2 [] id = "c" -> 3
                          [] OTHER -> 4]
SeedPairs == {pair \in Ids \X Ids : Rank[pair[1]] < Rank[pair[2]]}
PairRank(from, to) == Rank[from] * (Cardinality(Ids) + 1) + Rank[to]
Listed(from, to) ==
    call.op = "addEdgeWithFailure"
        => PairRank(call.args[1], call.args[2]) <= PairRank(from, to)

CreateAnyEdge ==
    /\ i < MaxEdges
    /\ \E pair \in SeedPairs, cost \in Costs :
        /\ Listed(pair[1], pair[2])
        /\ addEdgeWithFailure(pair[1], pair[2], cost)

\* a search that takes the key list of the graph itself as its queue and
\* deletes from it every vertex it visits
FindShortestPath_ConsumesKeys(start, end) ==
    /\ pc = "running"
    /\ call' = Call("findShortestPath", <<start, end>>,
                    findShortestPath(graph, graphKeys, nodeFailures,
                                     linkFailures, start, end))
    /\ graphKeys' =
        SelectSeq(graphKeys,
                  LAMBDA n : Search(graph, graphKeys, nodeFailures, linkFailures,
                                    start).distances[n] = Infinity)
    /\ UNCHANGED <<graph, nodeFailures, linkFailures, isPaused,
                   nodeFailureProbability, linkFailureProbability, vis, pc, i>>

\* network.js lines 198-257, called on the constructed network
FindShortestPath(start, end) ==
    /\ pc = "running"
    /\ call' = Call("findShortestPath", <<start, end>>,
                    findShortestPath(graph, graphKeys, nodeFailures,
                                     linkFailures, start, end))
    /\ UNCHANGED <<graph, graphKeys, nodeFailures, linkFailures, isPaused,
                   nodeFailureProbability, linkFailureProbability, vis, pc, i>>

InitPath ==
    /\ Constructing
    /\ pc = "initializeRouters"
    /\ nodeFailureProbability = NodeProbabilityDefault
    /\ linkFailureProbability = LinkProbabilityDefault

NextPath ==
    \/ InitializeRouters
    \/ CreateAnyEdge
    \/ Constructed
    \/ \E start \in Ids, end \in Ids : FindShortestPath(start, end)

SpecPath == InitPath /\ [][NextPath]_vars

-----------------------------------------------------------------------------
(* A script over a new Graph(), as test() of graph.js is one *)

Vertices == Range(routers)

\* graph.js lines 29-33
AddVertex(vertex) ==
    /\ pc = "script"
    /\ graph' = addVertex(graph, graphKeys, vertex).graph
    /\ graphKeys' = addVertex(graph, graphKeys, vertex).graphKeys
    /\ call' = Call("addVertex", <<vertex>>, NoPath)
    /\ UNCHANGED <<nodeFailures, linkFailures, isPaused, nodeFailureProbability,
                   linkFailureProbability, vis, pc, i>>

\* graph.js lines 36-41
AddEdge(src, des, cost) ==
    /\ pc = "script"
    /\ i < MaxAddEdge
    /\ graph' = addEdge(graph, src, des, cost)
    /\ i' = i + 1
    /\ call' = Call("addEdge", <<src, des, cost>>, NoPath)
    /\ UNCHANGED <<graphKeys, nodeFailures, linkFailures, isPaused,
                   nodeFailureProbability, linkFailureProbability, vis, pc>>

\* graph.js lines 44-53
RemoveVertex(vertex) ==
    /\ pc = "script"
    /\ graph' = removeVertex(graph, graphKeys, vertex).graph
    /\ graphKeys' = removeVertex(graph, graphKeys, vertex).graphKeys
    /\ call' = Call("removeVertex", <<vertex>>, NoPath)
    /\ UNCHANGED <<nodeFailures, linkFailures, isPaused, nodeFailureProbability,
                   linkFailureProbability, vis, pc, i>>

\* graph.js lines 64-69
RemoveEdge(src, des) ==
    /\ pc = "script"
    /\ graph' = removeEdge(graph, src, des)
    /\ call' = Call("removeEdge", <<src, des>>, NoPath)
    /\ UNCHANGED <<graphKeys, nodeFailures, linkFailures, isPaused,
                   nodeFailureProbability, linkFailureProbability, vis, pc, i>>

InitGraph ==
    /\ Constructing
    /\ pc = "script"
    /\ nodeFailureProbability = NodeProbabilityDefault
    /\ linkFailureProbability = LinkProbabilityDefault

NextGraph ==
    \/ \E vertex \in Vertices : AddVertex(vertex)
    \/ \E src \in Vertices, des \in Vertices, cost \in Costs : AddEdge(src, des, cost)
    \/ \E vertex \in Vertices : RemoveVertex(vertex)
    \/ \E src \in Vertices, des \in Vertices : RemoveEdge(src, des)

SpecGraph == InitGraph /\ [][NextGraph]_vars

-----------------------------------------------------------------------------
(* What the properties speak of *)

Queried == call.op = "findShortestPath"
Start == call.args[1]
End == call.args[2]
Found == call.ret

AllUp ==
    /\ \A n \in DOMAIN nodeFailures : ~nodeFailures[n]
    /\ \A k \in DOMAIN linkFailures : ~linkFailures[k]

Adjacent(u, v) == u \in DOMAIN graph /\ SomeVertex(graph[u], v)

\* the flag of the link between u and v, whichever way it was inserted
LinkDown(u, v) ==
    Flag(linkFailures, LinkKey(u, v)) \/ Flag(linkFailures, LinkKey(v, u))

UpVertex(v) == v \in DOMAIN graph /\ ~Flag(nodeFailures, v)

\* the vertices a walk over up vertices and up links reaches from those of S
RECURSIVE Reached(_)
Reached(S) ==
    LET more == {v \in DOMAIN graph :
                    UpVertex(v) /\ \E u \in S : Adjacent(u, v) /\ ~LinkDown(u, v)}
    IN  IF more \subseteq S THEN S ELSE Reached(S \cup more)

Connected(start, end) == UpVertex(start) /\ end \in Reached({start})

\* the cheapest entry for v in the list of u
LinkCost(u, v) ==
    LET costs == {graph[u][k].cost : k \in {j \in 1..Len(graph[u]) :
                                              graph[u][j].vertex = v}}
    IN  CHOOSE c \in costs : \A d \in costs : c <= d

RECURSIVE PathCost(_)
PathCost(path) ==
    IF Len(path) < 2 THEN 0
    ELSE LinkCost(path[1], path[2]) + PathCost(Tail(path))

\* brute force: every sequence of distinct vertices from start to end whose
\* consecutive vertices are adjacent
SimplePaths(start, end) ==
    {p \in UNION {[1..n -> DOMAIN graph] : n \in 2..Cardinality(DOMAIN graph)} :
        /\ p[1] = start /\ p[Len(p)] = end
        /\ \A j, k \in 1..Len(p) : j # k => p[j] # p[k]
        /\ \A k \in 1..(Len(p) - 1) : Adjacent(p[k], p[k + 1])}

-----------------------------------------------------------------------------
(* Properties of findShortestPath, under SpecPath *)

\* C1: a path returned by findShortestPath never goes over a link whose flag is
\* down, in whichever direction the link is crossed.
C1_NoDownLinkOnPath ==
    Queried => \A k \in 1..(Len(Found) - 1) : ~LinkDown(Found[k], Found[k + 1])

\* C2: a vertex whose flag is down is on no path returned by findShortestPath,
\* the source included.
C2_NoDownVertexOnPath ==
    Queried => \A k \in 1..Len(Found) : ~Flag(nodeFailures, Found[k])

\* C3: when the sink is down and differs from the source, findShortestPath
\* returns null, whatever the topology and the other flags.
C3_DownSinkNoPath ==
    (Queried /\ Start # End /\ Flag(nodeFailures, End)) => Found = NoPath

\* C3 witness: a query a -> c was answered null with c down, a up and the link
\* a-c present and up.
C3_Witness ==
    /\ Queried /\ Start = "a" /\ End = "c" /\ Found = NoPath
    /\ Flag(nodeFailures, "c") /\ ~Flag(nodeFailures, "a")
    /\ Adjacent("a", "c") /\ ~LinkDown("a", "c")

\* C4: with every flag false and source # sink, findShortestPath returns a
\* source-to-sink path whose cost is the least cost of a simple path found by
\* brute force, and returns null exactly when there is no such path.
C4_MatchesBruteForce ==
    (Queried /\ Start # End /\ AllUp) =>
        LET all == SimplePaths(Start, End)
        IN  /\ (Found = NoPath) <=> (all = {})
            /\ Found # NoPath =>
                /\ Found \in all
                /\ \A p \in all : PathCost(Found) <= PathCost(p)

\* C4 witness: on the triangle with a-b and b-c of cost 1 and a-c of cost 3,
\* all flags false, the query a -> c was answered with the two-hop path.
C4_Witness ==
    /\ Queried /\ Start = "a" /\ End = "c" /\ AllUp
    /\ Adjacent("a", "c") /\ LinkCost("a", "c") = 3
    /\ Found = <<"a", "b", "c">> /\ PathCost(Found) = 2

\* C5: findShortestPath returns null exactly when source and sink are not
\* connected by a walk over up vertices and up links (stated for two distinct
\* vertices of the graph).
C5_NoPathIffDisconnected ==
    (Queried /\ Start # End /\ Start \in DOMAIN graph /\ End \in DOMAIN graph) =>
        ((Found = NoPath) <=> ~Connected(Start, End))

\* C10: an insertion that names a vertex the graph does not hold changes neither
\* the topology nor the flags and does not end the script.
C10_MissingVertexIsNoOp ==
    [][\A pair \in SeedPairs, cost \in Costs :
        (/\ addEdgeWithFailure(pair[1], pair[2], cost)
         /\ ~(hasOwnProperty(graph, pair[1]) /\ hasOwnProperty(graph, pair[2])))
        => (UNCHANGED <<graph, graphKeys, linkFailures, nodeFailures>>
            /\ pc' # "aborted")]_vars

-----------------------------------------------------------------------------
(* The scenario of test(), under Spec *)

\* graph.js lines 139-145: the graph test() builds
TestGraph ==
    LET g0 == [n \in {"a", "b", "c"} |-> <<>>]
    IN  addEdge(addEdge(addEdge(g0, "a", "b", 3), "a", "c", 2), "b", "c", 4)

OnlyLinkDown(key) ==
    /\ \A n \in DOMAIN nodeFailures : ~nodeFailures[n]
    /\ \A k \in DOMAIN linkFailures : linkFailures[k] <=> (k = key)

PathNow(start, end) ==
    findShortestPath(graph, graphKeys, nodeFailures, linkFailures, start, end)

\* C6: on the graph of edges a-b 3, a-c 2, b-c 4 with no failure the shortest
\* path a -> c is [a, c] of cost 2 and a -> b is [a, b] of cost 3; with the flag
\* of a-c down the shortest path a -> c is [a, b, c] of cost 7.
C6_Scenario ==
    (pc = "running" /\ graph = TestGraph) =>
        /\ AllUp =>
            /\ PathNow("a", "c") = <<"a", "c">>
            /\ PathCost(PathNow("a", "c")) = 2
            /\ PathNow("a", "b") = <<"a", "b">>
            /\ PathCost(PathNow("a", "b")) = 3
        /\ OnlyLinkDown(LinkKey("a", "c")) =>
            /\ PathNow("a", "c") = <<"a", "b", "c">>
            /\ PathCost(PathNow("a", "c")) = 7

\* C6 witness: a tick left the flag of a-c as the only one down and the
\* snapshot shows the path a, b, c.
C6_Witness ==
    /\ pc = "running" /\ graph = TestGraph /\ call.op = "tick"
    /\ OnlyLinkDown(LinkKey("a", "c"))
    /\ vis.path = <<"a", "b", "c">>

-----------------------------------------------------------------------------
(* Properties of the Graph store, under SpecGraph *)

\* C7: after an addEdge(u, v, c) on two vertices of the graph, the list of u
\* holds (v, c) and the list of v holds (u, c).
C7_Symmetry ==
    (/\ call.op = "addEdge"
     /\ hasOwnProperty(graph, call.args[1])
     /\ hasOwnProperty(graph, call.args[2])) =>
        /\ Entry(call.args[2], call.args[3]) \in Range(graph[call.args[1]])
        /\ Entry(call.args[1], call.args[3]) \in Range(graph[call.args[2]])

\* C7 witness: addEdge(a, b, 2) ran on a graph holding a and b.
C7_Witness ==
    /\ call.op = "addEdge" /\ call.args = <<"a", "b", 2>>
    /\ hasOwnProperty(graph, "a") /\ hasOwnProperty(graph, "b")
    /\ Len(graph["b"]) = 1

\* C8: an addEdge(u, v, c2) or addEdge(v, u, c2) after an addEdge(u, v, c) that
\* succeeded is a no-op.
C8_SecondAddEdgeIsNoOp ==
    [][\A src \in Vertices, des \in Vertices, cost \in Costs :
        (AddEdge(src, des, cost) /\ src # des /\ Adjacent(src, des))
        => graph' = graph]_vars

\* C9: the insertion of a self-loop on a vertex of the graph is rejected: the
\* adjacency list of the vertex and the link flags stay as they are.
C9_SelfLoopRejected ==
    [][\A vertex \in Vertices, cost \in Costs :
        (AddEdge(vertex, vertex, cost) /\ hasOwnProperty(graph, vertex))
        => UNCHANGED <<graph, linkFailures>>]_vars

-----------------------------------------------------------------------------
(* Removing a vertex *)

\* the entries of a list that do not point at vertex, in their order
RECURSIVE NotReferencing(_, _)
NotReferencing(list, vertex) ==
    IF list = <<>> THEN <<>>
    ELSE IF Head(list).vertex = vertex
         THEN NotReferencing(Tail(list), vertex)
         ELSE <<Head(list)>> \o NotReferencing(Tail(list), vertex)

\* C11: removeVertex(id) on an existing vertex leaves id out of the vertices,
\* leaves no entry pointing at id in the list of any remaining vertex, and
\* keeps every other entry of every remaining vertex, in its order.
C11_RemoveVertexPurges ==
    [][\A id \in Vertices :
        (RemoveVertex(id) /\ hasOwnProperty(graph, id)) =>
            /\ ~hasOwnProperty(graph', id)
            /\ DOMAIN graph' = (DOMAIN graph) \ {id}
            /\ Range(graphKeys') = DOMAIN graph'
            /\ \A n \in DOMAIN graph' :
                /\ ~SomeVertex(graph'[n], id)
                /\ graph'[n] = NotReferencing(graph[n], id)]_vars

\* b was removed after two addEdge calls, and the link between a and c stayed
C11_Witness ==
    /\ pc = "script"
    /\ call.op = "removeVertex"
    /\ call.args = <<"b">>
    /\ i = 2
    /\ DOMAIN graph = {"a", "c"}
    /\ Len(graph["a"]) = 1 /\ graph["a"][1].vertex = "c"
    /\ Len(graph["c"]) = 1 /\ graph["c"][1].vertex = "a"

-----------------------------------------------------------------------------
(* The timer, the buttons and the failure flags *)

Probabilities == <<nodeFailureProbability, linkFailureProbability>>

Flags == <<nodeFailures, linkFailures>>

Topology == <<graph, graphKeys>>

\* the step is a run of the interval callback with the simulation not paused
RunningTick == pc = "running" /\ ~isPaused /\ call'.op = "tick"

\* every flag of new is the negation of its flag in old
Negated(old, new) ==
    DOMAIN new = DOMAIN old /\ \A k \in DOMAIN old : new[k] = ~old[k]

\* C12: a tick of the running simulation keeps or negates each flag and never
\* forces it down. Under probability 1 every draw is under the probability:
\* the tick negates every flag, so that a down vertex or link comes up again
\* with no reset and an up one goes down; under probability 0 it keeps them
\* all. The flagged vertices and links stay the same.
C12_TickToggles ==
    [][RunningTick =>
        /\ DOMAIN nodeFailures' = DOMAIN nodeFailures
        /\ DOMAIN linkFailures' = DOMAIN linkFailures
        /\ nodeFailureProbability = 100 => Negated(nodeFailures, nodeFailures')
        /\ linkFailureProbability = 100 => Negated(linkFailures, linkFailures')
        /\ nodeFailureProbability = 0 => nodeFailures' = nodeFailures
        /\ linkFailureProbability = 0 => linkFailures' = linkFailures]_vars

\* after a tick under probability 1, which negated every flag, a vertex and a
\* link are up (they were down) and another vertex is down (it was up)
C12_Witness ==
    /\ call.op = "tick" /\ call.drew
    /\ nodeFailureProbability = 100 /\ linkFailureProbability = 100
    /\ \E n, m \in DOMAIN nodeFailures : ~nodeFailures[n] /\ nodeFailures[m]
    /\ \E k \in DOMAIN linkFailures : ~linkFailures[k]

\* C13: while both probabilities are 0 no tick changes a vertex flag or a link
\* flag, so the failure state after any number of ticks is the one before.
C13_ZeroProbabilityFreezes ==
    [][(pc = "running" /\ call'.op = "tick"
            /\ nodeFailureProbability = 0 /\ linkFailureProbability = 0)
        => UNCHANGED Flags]_vars

\* a running tick under 0 and 0 that found a vertex down and a link down
C13_Witness ==
    /\ call.op = "tick" /\ call.drew
    /\ nodeFailureProbability = 0 /\ linkFailureProbability = 0
    /\ \E n \in DOMAIN nodeFailures : nodeFailures[n]
    /\ \E k \in DOMAIN linkFailures : linkFailures[k]

\* the flags of the same vertices or links, all up
Pristine(failures) == [k \in DOMAIN failures |-> FALSE]

\* C14: resetNetwork sets the flag of every vertex and of every link to false
\* and leaves nodeFailureProbability, linkFailureProbability, the paused or
\* running state and the topology as they were.
C14_ResetClearsFlagsOnly ==
    [][call'.op = "resetNetwork" =>
        /\ nodeFailures' = Pristine(nodeFailures)
        /\ linkFailures' = Pristine(linkFailures)
        /\ \A n \in DOMAIN graph : ~nodeFailures'[n]
        /\ UNCHANGED <<Probabilities, isPaused, Topology>>]_vars

\* a reset of the paused simulation under reconfigured probabilities
C14_Witness ==
    /\ call.op = "resetNetwork"
    /\ AllUp
    /\ isPaused
    /\ nodeFailureProbability = 100 /\ linkFailureProbability = 50

\* the path from source to sink over the mesh as built, with nothing failed
PristinePath ==
    findShortestPath(TestGraph, routers, [n \in Vertices |-> FALSE],
                     [k \in {LinkKey(e[1], e[2]) : e \in Range(edges)} |-> FALSE],
                     source, sink)

\* C15: after any run of ticks, pause clicks and accepted or rejected
\* reconfigurations, the path reported by a reset is the path over the
\* original topology with every flag false.
C15_ResetReportsPristinePath ==
    call.op = "resetNetwork" =>
        /\ vis.path = PristinePath
        /\ call.ret = PristinePath
        /\ PristinePath = <<"a", "c">>

\* a reset under reconfigured probabilities, with the simulation running
C15_Witness ==
    /\ call.op = "resetNetwork"
    /\ vis.path = <<"a", "c">>
    /\ ~isPaused
    /\ nodeFailureProbability = 50 /\ linkFailureProbability = 100

\* C16: reset is taken in the running and in the paused state alike; in the
\* same step it computes the path on the cleared flags and draws the
\* network, and it leaves a paused simulation paused.
C16_ResetDrawsAtOnce ==
    [][call'.op = "resetNetwork" =>
        /\ call'.drew
        /\ vis' = visualizeNetwork(graph', graphKeys', nodeFailures',
                                   linkFailures')
        /\ vis'.path = findShortestPath(graph', graphKeys', nodeFailures',
                                        linkFailures', source, sink)
        /\ call'.ret = vis'.path
        /\ isPaused' = isPaused]_vars

\* a reset of the paused simulation drew the network and left it paused
C16_Witness ==
    /\ call.op = "resetNetwork" /\ call.drew
    /\ isPaused
    /\ vis.path = findShortestPath(graph, graphKeys, nodeFailures, linkFailures,
                                   source, sink)

\* a probability of [0, 1], in percent
InRange(x) == x \in 0..100

\* C17: setProbabilities with either value outside [0, 1], or not a number,
\* is rejected and both probabilities keep their values, with no partial
\* update; with both values inside it stores both, which the later ticks
\* read; accepted or rejected, it changes no vertex flag and no link flag.
C17_SetProbabilitiesAllOrNothing ==
    [][\A nodeProbInput \in Inputs, linkProbInput \in Inputs :
        SetProbabilities(nodeProbInput, linkProbInput) =>
            /\ IF InRange(nodeProbInput) /\ InRange(linkProbInput)
               THEN /\ nodeFailureProbability' = nodeProbInput
                    /\ linkFailureProbability' = linkProbInput
               ELSE UNCHANGED Probabilities
            /\ UNCHANGED Flags]_vars

\* a click on setProbabilities after which the constructor's 0.1, which no
\* input offers, is still the vertex probability: the click was rejected
C17_Witness ==
    /\ call.op = "setProbabilities"
    /\ nodeFailureProbability = NodeProbabilityArg
    /\ linkFailureProbability = LinkProbabilityArg
    /\ NodeProbabilityArg \notin Inputs
    /\ \E n \in DOMAIN nodeFailures : nodeFailures[n]

\* C18: a tick of the paused simulation changes no vertex flag, no link flag,
\* no probability and nothing of the topology and draws nothing; the flags
\* stay as they are from one paused state to the next unless the step is a
\* reset.
C18_PausedTickIsInert ==
    [][/\ (pc = "running" /\ isPaused /\ call'.op = "tick") =>
            /\ UNCHANGED <<Flags, Probabilities, Topology, vis, isPaused>>
            /\ ~call'.drew
       /\ (isPaused /\ isPaused' /\ call'.op # "resetNetwork") =>
            UNCHANGED Flags]_vars

\* a tick of the paused simulation, with a vertex down, under probabilities 1
\* and 1 that would negate every flag if the tick resampled
C18_Witness ==
    /\ call.op = "tick" /\ ~call.drew
    /\ isPaused
    /\ \E n \in DOMAIN nodeFailures : nodeFailures[n]
    /\ nodeFailureProbability = 100 /\ linkFailureProbability = 100

\* the step is a click on toggleButton
ToggleClick == pc = "running" /\ call'.op = "toggleButton"

\* C19 as stated: pause moves Running to Paused, resume moves Paused to
\* Running, and each is a no-op in its target state, so that the second of
\* two pause clicks in a row leaves the simulation paused and the second of
\* two resume clicks leaves it running.
C19_PauseResumeIdempotent ==
    [][(ToggleClick /\ call.op = "toggleButton") => isPaused' = isPaused]_vars

\* C19 amended: the one button negates isPaused at every click, from running
\* to paused and from paused to running, and changes nothing else; a second
\* click in a row undoes the first.
C19_ClickNegatesPaused ==
    [][ToggleClick =>
        /\ isPaused' = ~isPaused
        /\ UNCHANGED <<Flags, Probabilities, Topology, vis>>]_vars

\* a click resumed the simulation after ticks that failed a vertex
C19_Witness ==
    /\ call.op = "toggleButton"
    /\ ~isPaused
    /\ \E n \in DOMAIN nodeFailures : nodeFailures[n]

\* C20: a tick resamples the flags, then computes the path, then draws; in
\* every state of the running program, after any interleaving of ticks,
\* clicks and resets, the path of the last drawing is the result of
\* findShortestPath on the current flags, and a tick logs that path.
C20_DrawnPathIsCurrent ==
    pc = "running" =>
        /\ vis.path = findShortestPath(graph, graphKeys, nodeFailures,
                                       linkFailures, source, sink)
        /\ (call.op = "tick" /\ call.drew) => call.ret = vis.path

\* a tick left a failure that turns the path from a, c to a, b, c
C20_Witness ==
    /\ call.op = "tick" /\ call.drew
    /\ vis.path = <<"a", "b", "c">>
    /\ ~AllUp

-----------------------------------------------------------------------------
(* The selection of the next vertex, under SpecPath *)

\* the queue and the distances the loop holds when it selects for the first
\* time and, once Start has been visited, for the second time
FirstQueue == graphKeys

FirstDistances == InitDistances(graph, Start)

SecondQueue == SelectSeq(graphKeys, LAMBDA n : n # Start)

SecondDistances ==
    Relax(graph[Start], Start, nodeFailures, linkFailures,
          FirstDistances, InitPrevious(graph)).distances

\* m is in the queue, no node of the queue is nearer, and every node before m
\* in the queue is farther
FirstOfTheNearest(queue, distances, m) ==
    \E k \in 1..Len(queue) :
        /\ queue[k] = m
        /\ \A j \in 1..Len(queue) : ~Lt(distances[queue[j]], distances[m])
        /\ \A j \in 1..(k - 1) : Lt(distances[m], distances[queue[j]])

\* two nodes of the queue share the least distance, and it is finite
Tie(queue, distances) ==
    \E j, k \in 1..Len(queue) :
        /\ j # k
        /\ distances[queue[j]] = distances[queue[k]]
        /\ distances[queue[j]] # Infinity
        /\ \A l \in 1..Len(queue) : ~Lt(distances[queue[l]], distances[queue[j]])

\* C21: when several unvisited vertices share the least tentative distance,
\* findShortestPath selects the one added to the graph first; the selection,
\* and with it the returned path, is a function of topology, flags, source and
\* sink.
C21_FirstAddedWinsTies ==
    (Queried /\ graphKeys # <<>>) =>
        /\ FirstOfTheNearest(FirstQueue, FirstDistances,
                             MinNode(FirstQueue, FirstDistances, null))
        /\ hasOwnProperty(graph, Start) =>
            /\ MinNode(FirstQueue, FirstDistances, null) = Start
            /\ SecondQueue # <<>> =>
                FirstOfTheNearest(SecondQueue, SecondDistances,
                                  MinNode(SecondQueue, SecondDistances, null))
        /\ Found = findShortestPath(graph, graphKeys, nodeFailures, linkFailures,
                                    Start, End)

\* a query from a with b and c both at distance 1 after the visit of a: the
\* loop selected b, added before c
C21_Witness ==
    /\ Queried /\ Start = "a"
    /\ hasOwnProperty(graph, "a")
    /\ Tie(SecondQueue, SecondDistances)
    /\ MinNode(SecondQueue, SecondDistances, null) = "b"
    /\ SecondDistances["b"] = 1 /\ SecondDistances["c"] = 1

-----------------------------------------------------------------------------
(* Purity of the path computation and of the drawing, under SpecPath *)

\* C22: a call of findShortestPath and a call of visualizeNetwork change no
\* vertex flag, no link flag, no probability, no adjacency list and not the
\* paused state; a path computation that follows another with the same ends
\* and nothing in between returns the same result, and one from source to
\* sink returns the path of the drawing.
C22_PathAndDrawingArePure ==
    [][/\ call'.op \in {"findShortestPath", "visualizeNetwork"} =>
            UNCHANGED <<Flags, Probabilities, Topology, isPaused>>
       /\ (Queried /\ call'.op = "findShortestPath" /\ call'.args = call.args) =>
            call'.ret = call.ret
       /\ (call'.op = "findShortestPath" /\ call'.args = <<source, sink>>) =>
            call'.ret = vis'.path]_vars

\* a query from source to sink on a network with a vertex down found the
\* path that the constructor had drawn
C22_Witness ==
    /\ Queried /\ Start = source /\ End = sink
    /\ Found # NoPath /\ Found = vis.path
    /\ ~AllUp

-----------------------------------------------------------------------------
(* The topology of the running simulation, under Spec *)

\* the keys under which createNetworkEdges stored a link flag
LinkKeys == {LinkKey(e[1], e[2]) : e \in Range(edges)}

\* C23: once the constructor is over, the vertices, their order, the
\* adjacency lists with their costs and the keys carrying a flag are the
\* same in every reachable state: no tick, reset, pause click or
\* reconfiguration adds or removes a vertex, a link or a flag key.
C23_TopologyIsFixed ==
    pc = "running" =>
        /\ graph = TestGraph
        /\ graphKeys = routers
        /\ DOMAIN nodeFailures = Vertices
        /\ DOMAIN linkFailures = LinkKeys

\* a tick after a reconfiguration left every vertex and every link down
C23_Witness ==
    /\ call.op = "tick" /\ call.drew
    /\ nodeFailureProbability = 50 /\ linkFailureProbability = 50
    /\ \A n \in Vertices : Flag(nodeFailures, n)
    /\ \A k \in LinkKeys : Flag(linkFailures, k)
    /\ vis.path = NoPath

-----------------------------------------------------------------------------
(* The drawing, under SpecPath *)

\* the links drawn by the constructor's visualizeNetwork
Drawn == Range(vis.edges)

\* u and v follow each other on the path, in either direction
ConsecutiveOnPath(path, u, v) ==
    \E k \in 1..(Len(path) - 1) : {path[k], path[k + 1]} = {u, v}

\* C24: the drawing colours blue only links of the current shortest path: a
\* blue link joins two consecutive vertices of the path from source to sink,
\* and no link is blue when there is no path.
C24_BlueOnlyOnPath ==
    pc = "running" =>
        \A e \in Drawn :
            e.color = "blue" => ConsecutiveOnPath(vis.path, e.from, e.to)

\* the drawn links that join u and v, from either side
DrawnBetween(u, v) ==
    {k \in 1..Len(vis.edges) : {vis.edges[k].from, vis.edges[k].to} = {u, v}}

\* C26: every drawing emits each link whose flag is up exactly once and no
\* link whose flag is down, whatever the order of the vertices.
C26_UpLinksOnceDownLinksNever ==
    pc = "running" =>
        \A u, v \in DOMAIN graph :
            Adjacent(u, v) =>
                Cardinality(DrawnBetween(u, v)) = IF LinkDown(u, v) THEN 0 ELSE 1

-----------------------------------------------------------------------------
(* A query from a vertex to itself, under SpecPath *)

\* C25: when source and sink are the same vertex of the graph, and it is up,
\* findShortestPath returns the one-vertex sequence of that vertex and not
\* null.
C25_SourceIsSink ==
    (Queried /\ Start = End /\ UpVertex(Start)) => Found = <<Start>>

-----------------------------------------------------------------------------
(* Symmetry of the adjacency lists, under SpecGraph *)

\* how many times the list holds the entry
Count(list, entry) == Cardinality({k \in 1..Len(list) : list[k] = entry})

\* C27: after any sequence of addVertex, addEdge, removeEdge and removeVertex
\* the lists are symmetric: for all vertices u, v and every cost c the list of
\* u holds (v, c) as many times as the list of v holds (u, c), and every entry
\* points at a vertex of the graph.
C27_ListsStaySymmetric ==
    pc = "script" =>
        \A u \in DOMAIN graph :
            \A k \in 1..Len(graph[u]) :
                LET v == graph[u][k].vertex
                    c == graph[u][k].cost
                IN  /\ hasOwnProperty(graph, v)
                    /\ Count(graph[u], Entry(v, c)) = Count(graph[v], Entry(u, c))

\* removeEdge(a, b) ran after two addEdge calls and left the link between a
\* and c in both lists
C27_Witness ==
    /\ pc = "script"
    /\ call.op = "removeEdge" /\ call.args = <<"a", "b">>
    /\ i = 2
    /\ hasOwnProperty(graph, "a") /\ hasOwnProperty(graph, "b")
    /\ hasOwnProperty(graph, "c")
    /\ graph["b"] = <<>>
    /\ Len(graph["a"]) = 1 /\ graph["a"][1].vertex = "c"
    /\ Len(graph["c"]) = 1 /\ graph["c"][1].vertex = "a"

-----------------------------------------------------------------------------
(* Shape of the result, under SpecPath *)

\* C28: every result of findShortestPath other than null is well formed: it
\* starts at the source, ends at the sink, holds no vertex twice, and every
\* two consecutive vertices are joined by an edge of the graph.
C28_PathIsWellFormed ==
    (Queried /\ Found # NoPath) =>
        /\ Found[1] = Start
        /\ Found[Len(Found)] = End
        /\ \A j, k \in 1..Len(Found) : j # k => Found[j] # Found[k]
        /\ \A k \in 1..(Len(Found) - 1) : Adjacent(Found[k], Found[k + 1])

\* a query from c to a answered with the three vertices c, b, a while a flag
\* is down
C28_Witness ==
    /\ Queried /\ Start = "c" /\ End = "a"
    /\ Found = <<"c", "b", "a">>
    /\ ~AllUp

-----------------------------------------------------------------------------
(* Termination of findShortestPath, under SpecPath *)

\* the walk over the predecessors from node meets null (or undefined) within
\* fuel steps
RECURSIVE EndsWithin(_, _, _)
EndsWithin(previous, node, fuel) ==
    IF node = null THEN TRUE
    ELSE IF fuel = 0 THEN FALSE
    ELSE EndsWithin(previous,
                    IF node \in DOMAIN previous THEN previous[node] ELSE null,
                    fuel - 1)

\* the selection takes a node out of the queue, which gets shorter by one, or
\* meets an infinite least distance and stops the loop
SelectionShrinks(queue, distances) ==
    LET minNode == MinNode(queue, distances, null)
    IN  /\ minNode \in Range(queue)
        /\ \/ distances[minNode] = Infinity
           \/ Len(SelectSeq(queue, LAMBDA n : n # minNode)) = Len(queue) - 1

\* C29: findShortestPath terminates on every graph with positive costs, for
\* every flags and every source and sink, ids that are no vertices included:
\* each selection removes one vertex from the queue or stops the loop on an
\* infinite least distance, and the walk back over the predecessors has no
\* cycle, so that it ends within as many steps as there are vertices, plus
\* one for a sink that is no vertex.
C29_SearchTerminates ==
    /\ \A start \in Ids, end \in Ids :
        EndsWithin(Search(graph, graphKeys, nodeFailures, linkFailures,
                          start).previous,
                   end, Len(graphKeys) + 1)
    /\ (Queried /\ graphKeys # <<>>) =>
        /\ SelectionShrinks(FirstQueue, FirstDistances)
        /\ (hasOwnProperty(graph, Start) /\ SecondQueue # <<>>) =>
            SelectionShrinks(SecondQueue, SecondDistances)
        /\ Len(Found) <= Len(graphKeys)

\* a query from d, which is no vertex, on a graph with the link a-c: the first
\* selection met an infinite distance and the result is null
C29_Witness ==
    /\ Queried /\ Start = "d" /\ End = "c"
    /\ Adjacent("a", "c")
    /\ FirstDistances[MinNode(FirstQueue, FirstDistances, null)] = Infinity
    /\ Found = NoPath

====
